---- MODULE Spec2Model ----
(***************************************************************************)
(* Model of the ovsa crate: the sparse binary hypervector algebra          *)
(* (src/ovsa/src/binary/mod.rs) and the dense real hypervector algebra     *)
(* (src/ovsa/src/dense/mod.rs).                                            *)
(*                                                                         *)
(* The crate is a library of pure functions.  A call is modelled as one    *)
(* step: the inputs are held in `call`, the action of the called function  *)
(* computes `ret`.  A function's outcome is a record with a tag:           *)
(*   "Ok"    the function returned a value,                                *)
(*   "Err"   the function returned Err(OVSAError::kind),                   *)
(*   "Panic" the function aborted (assert_eq!, unwrap on Err, slice index  *)
(*           out of bounds, a panic inside a dependency).                  *)
(* A sparse vector is sprs::CsVec<i8>: dim, indices, data.  A dense vector *)
(* is ndarray::Array1<f32>: a sequence; components are small integers,     *)
(* which f32 represents and adds and multiplies exactly.                   *)
(***************************************************************************)
EXTENDS Integers, Sequences, FiniteSets

VARIABLES pc, call, ret, x, y, last

vars == <<pc, call, ret, x, y, last>>

\* ------------------------------------------------------------------ bounds

\* Largest vector dimension (sparse); index values range over 0..MaxDim.
MaxDim == 3
\* Longest index list handed to from_indices.
MaxLen == 3
\* Largest dimension of the operands of consensus_sum.
MaxBundleDim == 2
\* Longest list of vectors handed to consensus_sum.
MaxVecs == 3
\* Largest |shift_by|; larger than every dimension.
MaxShift == 5
\* Largest dense dimension and longest list handed to superposition.
MaxDenseDim == 2
MaxDenseVecs == 2

\* Component values of the dense inputs.
DenseVals == {-1, 0, 1}

\* The modulus of `as usize`.  The platform's is 2^64; the model's integers
\* are 32 bits wide, and any modulus above every modelled index reproduces
\* the one thing the code does with the cast's result (compare it with dim).
UsizeModulus == 65536

\* ----------------------------------------------------------------- helpers

Range(s) == {s[k] : k \in 1..Len(s)}

Min(S) == CHOOSE m \in S : \A o \in S : m <= o

RECURSIVE SetToSortedSeq(_)
SetToSortedSeq(S) ==
    IF S = {} THEN <<>>
    ELSE <<Min(S)>> \o SetToSortedSeq(S \ {Min(S)})

\* Outcomes.
NoVec == [dim |-> 0, indices |-> <<>>, data |-> <<>>]
Outcome(tag, kind, vec, arr, num, den) ==
    [tag |-> tag, kind |-> kind, vec |-> vec, arr |-> arr, num |-> num, den |-> den]
OkVec(v) == Outcome("Ok", "", v, <<>>, 0, 1)
OkArr(a) == Outcome("Ok", "", NoVec, a, 0, 1)
OkNum(n) == Outcome("Ok", "", NoVec, <<>>, n, 1)
\* A floating-point value num/den (0/0 is NaN).
OkRatio(n, d) == Outcome("Ok", "", NoVec, <<>>, n, d)
Err(kind) == Outcome("Err", kind, NoVec, <<>>, 0, 1)
Panic == Outcome("Panic", "", NoVec, <<>>, 0, 1)
NoRet == Outcome("None", "", NoVec, <<>>, 0, 1)

\* ------------------------------------------------------- sprs::CsVec (used)

\* Vec<usize>::sort and sprs::utils::sort_indices_data_slices: pairs
\* <<index, value>> ordered by index.
RECURSIVE InsertSorted(_, _)
InsertSorted(p, s) ==
    IF s = <<>> THEN <<p>>
    ELSE IF p[1] < Head(s)[1] THEN <<p>> \o s
    ELSE <<Head(s)>> \o InsertSorted(p, Tail(s))

RECURSIVE SortPairs(_)
SortPairs(s) ==
    IF s = <<>> THEN <<>> ELSE InsertSorted(Head(s), SortPairs(Tail(s)))

Sort(indices) ==
    LET p == SortPairs([k \in 1..Len(indices) |-> <<indices[k], 0>>])
    IN  [k \in 1..Len(p) |-> p[k][1]]

\* sprs::utils::sorted_indices: strictly increasing.
sorted_indices(indices) ==
    \A k \in 1..(Len(indices) - 1) : indices[k] < indices[k + 1]

\* CsVec::try_new: the structure checks of a sparse vector.
try_new(n, indices, data) ==
    IF Len(indices) # Len(data) THEN Err("SizeMismatch")
    ELSE IF ~sorted_indices(indices) THEN Err("Unsorted")
    ELSE IF indices # <<>> /\ indices[Len(indices)] >= n THEN Err("OutOfRange")
    ELSE OkVec([dim |-> n, indices |-> indices, data |-> data])

\* CsVec::new: try_new, panicking on a structure error.
CsVec_new(n, indices, data) ==
    IF try_new(n, indices, data).tag = "Ok" THEN try_new(n, indices, data) ELSE Panic

\* CsVec::new_from_unsorted: try_new; on Unsorted, sort indices with their
\* data and try_new again.
new_from_unsorted(n, indices, data) ==
    LET first == try_new(n, indices, data)
        p == SortPairs([k \in 1..Len(indices) |-> <<indices[k], data[k]>>])
    IN  IF first.tag = "Err" /\ first.kind = "Unsorted"
        THEN try_new(n, [k \in 1..Len(p) |-> p[k][1]], [k \in 1..Len(p) |-> p[k][2]])
        ELSE first

\* The value a sparse vector stores at a position (0 where none is stored).
At(v, i) ==
    IF \E k \in 1..Len(v.indices) : v.indices[k] = i
    THEN v.data[CHOOSE k \in 1..Len(v.indices) : v.indices[k] = i]
    ELSE 0

\* &CsVec + &CsVec: the stored positions of either operand, values summed.
CsVecAdd(vec1, vec2) ==
    LET idx == SetToSortedSeq(Range(vec1.indices) \cup Range(vec2.indices))
    IN  [dim |-> vec1.dim, indices |-> idx,
         data |-> [k \in 1..Len(idx) |-> At(vec1, idx[k]) + At(vec2, idx[k])]]

\* --------------------------------------------------- binary: from_indices

\* A constructor that keeps the index list as given (no sort, no check).
from_indices_unchecked(dimension, indices) ==
    OkVec([dim |-> dimension, indices |-> indices,
           data |-> [k \in 1..Len(indices) |-> 1]])

from_indices(dimension, indices) ==
    LET n_active == Len(indices)
        data == [k \in 1..n_active |-> 1]
        r == new_from_unsorted(dimension, indices, data)
    IN  IF r.tag = "Ok" THEN r ELSE Panic

\* --------------------------------------------------- binary: sparse_random

\* rand::seq::index::sample(rng, length, amount): its possible outcomes, the
\* sequences of `amount` distinct indices below `length`.
SampleOutcomes(length, amount) ==
    {s \in [1..amount -> 0..(length - 1)] :
        \A j, k \in 1..amount : j # k => s[j] # s[k]}

\* sparse_random with the outcome `drawn` of sample; sample panics when
\* amount > length.
sparse_random(dimension, n_active, drawn) ==
    IF n_active > dimension THEN Panic
    ELSE CsVec_new(dimension, Sort(drawn), [k \in 1..n_active |-> 1])

\* ------------------------------------------------------------ binary: xor

\* xor keeping every stored entry of the sum.
xor_union(vec1, vec2) ==
    IF vec1.dim # vec2.dim THEN Panic
    ELSE from_indices(vec1.dim, CsVecAdd(vec1, vec2).indices)

xor(vec1, vec2) ==
    IF vec1.dim # vec2.dim THEN Panic
    ELSE LET size == vec1.dim
             result == CsVecAdd(vec1, vec2)
             indices == SelectSeq([k \in 1..Len(result.indices) |->
                                      <<result.indices[k], result.data[k]>>],
                                  LAMBDA e : e[2] = 1)
         IN  from_indices(size, [k \in 1..Len(indices) |-> indices[k][1]])

\* ----------------------------------------------- binary: hamming_distance

\* hamming_distance counting the stored entries of the sum.
hamming_distance_sum(vec1, vec2) ==
    IF vec1.dim # vec2.dim THEN Panic
    ELSE OkNum(Len(CsVecAdd(vec1, vec2).indices))

hamming_distance(vec1, vec2) ==
    IF vec1.dim # vec2.dim THEN Panic
    ELSE LET bound_vec == xor(vec1, vec2)
         IN  IF bound_vec.tag = "Ok" THEN OkNum(Len(bound_vec.vec.indices))
             ELSE bound_vec

\* ----------------------------------------------------- binary: similarity

\* 1 - hamming/dim, as the fraction (dim - hamming)/dim.
similarity(vec1, vec2) ==
    IF vec1.dim # vec2.dim THEN Panic
    ELSE LET h == hamming_distance(vec1, vec2)
         IN  IF h.tag = "Ok" THEN OkRatio(vec1.dim - h.num, vec1.dim) ELSE h

\* -------------------------------------------------- binary: consensus_sum

\* One vector's vote at a position, counting only the active inputs.
Vote_active_only(vec, index) ==
    IF index \in Range(vec.indices) THEN 1 ELSE 0

\* One vector's vote at a position: +1 where active, -1 where not.
Vote(vec, index) ==
    IF index \in Range(vec.indices) THEN 1 ELSE -1

\* result_data[index] after the loop over the vectors.
RECURSIVE result_data(_, _)
result_data(vectors, index) ==
    IF vectors = <<>> THEN 0
    ELSE Vote(Head(vectors), index) + result_data(Tail(vectors), index)

\* set_active; `sample` is the outcome of rng.sample(uniform) > 0.5.
set_active(value, sample) ==
    IF value > 0 THEN TRUE
    ELSE IF value < 0 THEN FALSE
    ELSE sample

\* The positions at which the random source is consulted.
TiePositions(vectors) ==
    IF vectors = <<>> THEN {}
    ELSE {index \in 0..(vectors[1].dim - 1) : result_data(vectors, index) = 0}

\* consensus_sum; `coin` holds the positions at which the draw exceeds 0.5.
\* vectors[0] on an empty slice panics.
consensus_sum(vectors, coin) ==
    IF vectors = <<>> THEN Panic
    ELSE LET size == vectors[1].dim
             active == {index \in 0..(size - 1) :
                           set_active(result_data(vectors, index), index \in coin)}
             indices == Sort(SetToSortedSeq(active))
         IN  from_indices(size, indices)

\* --------------------------------------------------- binary: cyclic_shift

\* `new_index as usize`.
as_usize(n) == n % UsizeModulus

\* The body of the loop: one wrap-around correction at most.
shifted_index(index, shift_by, size) ==
    LET new_index == index + shift_by
    IN  as_usize(IF new_index < 0 THEN new_index + size
                 ELSE IF new_index >= size THEN new_index - size
                 ELSE new_index)

cyclic_shift(vec, shift_by) ==
    from_indices(vec.dim,
                 [k \in 1..Len(vec.indices) |->
                     shifted_index(vec.indices[k], shift_by, vec.dim)])

\* ------------------------------------------------------------------ dense

Zeros(n) == [k \in 1..n |-> 0]

RECURSIVE superposition_loop(_, _, _)
superposition_loop(array_vec, size, result) ==
    IF array_vec = <<>> THEN OkArr(result)
    ELSE IF Len(Head(array_vec)) # size THEN Err("VectorSizeMismatch")
    ELSE superposition_loop(Tail(array_vec), size,
                            [k \in 1..size |-> result[k] + Head(array_vec)[k]])

superposition(array_vec) ==
    IF array_vec = <<>> THEN Err("EmptyVectorList")
    ELSE superposition_loop(array_vec, Len(array_vec[1]), Zeros(Len(array_vec[1])))

\* The double loop of circular_convolution, step t = i * n + j; b[j] beyond
\* b's length panics.
RECURSIVE convolution_loop(_, _, _, _)
convolution_loop(a, b, t, result) ==
    LET n == Len(a)
    IN  IF t >= n * n THEN OkArr(result)
        ELSE LET i == t \div n
                 j == t % n
                 k == (i + j) % n
             IN  IF j >= Len(b) THEN Panic
                 ELSE convolution_loop(a, b, t + 1,
                          [result EXCEPT ![k + 1] = @ + a[i + 1] * b[j + 1]])

circular_convolution(a, b) == convolution_loop(a, b, 0, Zeros(Len(a)))

RECURSIVE correlation_loop(_, _, _, _)
correlation_loop(a, b, t, result) ==
    LET n == Len(a)
    IN  IF t >= n * n THEN OkArr(result)
        ELSE LET i == t \div n
                 j == t % n
                 k == (i + n - j) % n
             IN  IF j >= Len(b) THEN Panic
                 ELSE correlation_loop(a, b, t + 1,
                          [result EXCEPT ![k + 1] = @ + a[i + 1] * b[j + 1]])

circular_correlation(a, b) == correlation_loop(a, b, 0, Zeros(Len(a)))

\* The loop of the dense cyclic_shift from old_index on.
RECURSIVE dense_shift_loop(_, _, _, _)
dense_shift_loop(array, shift_by, old_index, result) ==
    LET n == Len(array)
    IN  IF old_index >= n THEN result
        ELSE dense_shift_loop(array, shift_by, old_index + 1,
                 [result EXCEPT ![((old_index + shift_by) % n) + 1] =
                     array[old_index + 1]])

dense_cyclic_shift(array, shift_by) ==
    OkArr(dense_shift_loop(array, shift_by, 0, Zeros(Len(array))))

RECURSIVE Dot(_, _)
Dot(a, b) ==
    IF a = <<>> THEN 0 ELSE Head(a) * Head(b) + Dot(Tail(a), Tail(b))

\* Cosine similarity dot / (|a| * |b|), kept as the pair
\* num = dot, den = |a|^2 * |b|^2 (the value is num / sqrt(den)).
dense_similarity(a, b) ==
    IF Len(a) # Len(b) THEN Panic
    ELSE OkRatio(Dot(a, b), Dot(a, a) * Dot(b, b))

\* ------------------------------------------------------------------ inputs

Dims == 0..MaxDim
Shifts == (0 - MaxShift)..MaxShift

\* Index lists: every order, duplicates, and values up to MaxDim, which is
\* out of range for every dimension.
IdxSeqs == UNION {[1..k -> 0..MaxDim] : k \in 0..MaxLen}

\* The sparse vectors from_indices builds, of dimension at most d.
SparseInputs(d) ==
    {from_indices(n, SetToSortedSeq(S)).vec : <<n, S>> \in
        {<<n, S>> \in (0..d) \X SUBSET (0..(d - 1)) : S \subseteq 0..(n - 1)}}

DenseInputs == UNION {[1..n -> DenseVals] : n \in 0..MaxDenseDim}

Call(op, dim, n, shift, idx, vecs, arrs) ==
    [op |-> op, dim |-> dim, n |-> n, shift |-> shift, idx |-> idx,
     vecs |-> vecs, arrs |-> arrs]

NoCall == Call("none", 0, 0, 0, <<>>, <<>>, <<>>)

SparsePairCalls(op) ==
    {Call(op, 0, 0, 0, <<>>, <<a, b>>, <<>>) :
        a \in SparseInputs(MaxDim), b \in SparseInputs(MaxDim)}

DensePairCalls(op) ==
    {Call(op, 0, 0, 0, <<>>, <<>>, <<a, b>>) : a \in DenseInputs, b \in DenseInputs}

\* The calls of the sparse algebra.
SparseCalls(c) ==
    \/ c \in {Call("from_indices", d, 0, 0, s, <<>>, <<>>) : d \in Dims, s \in IdxSeqs}
    \/ c \in {Call("sparse_random", d, n, 0, <<>>, <<>>, <<>>) :
                d \in Dims, n \in 0..(MaxDim + 1)}
    \/ c \in SparsePairCalls("xor")
    \/ c \in SparsePairCalls("hamming_distance")
    \/ c \in SparsePairCalls("similarity")
    \/ c \in {Call("consensus_sum", 0, 0, 0, <<>>, vs, <<>>) :
                vs \in UNION {[1..k -> SparseInputs(MaxBundleDim)] : k \in 0..MaxVecs}}
    \/ c \in {Call("cyclic_shift", 0, 0, s, <<>>, <<v>>, <<>>) :
                v \in SparseInputs(MaxDim), s \in Shifts}

\* The calls of the dense algebra.
DenseCalls(c) ==
    \/ c \in {Call("superposition", 0, 0, 0, <<>>, <<>>, as) :
                as \in UNION {[1..k -> DenseInputs] : k \in 0..MaxDenseVecs}}
    \/ c \in DensePairCalls("circular_convolution")
    \/ c \in DensePairCalls("circular_correlation")
    \/ c \in DensePairCalls("dense_similarity")
    \/ c \in {Call("dense_cyclic_shift", 0, 0, s, <<>>, <<>>, <<a>>) :
                a \in DenseInputs, s \in Shifts}

\* ------------------------------------------------ specification: one call

Init ==
    /\ pc = "call"
    /\ SparseCalls(call) \/ DenseCalls(call)
    /\ ret = NoRet
    /\ x = NoVec
    /\ y = NoVec
    /\ last = [op |-> "none", tag |-> "None", shift |-> 0]

Returns(op, r) ==
    /\ pc = "call"
    /\ call.op = op
    /\ ret' = r
    /\ pc' = "done"
    /\ UNCHANGED <<call, x, y, last>>

FromIndices == Returns("from_indices", from_indices(call.dim, call.idx))

SparseRandom ==
    \E drawn \in SampleOutcomes(call.dim, IF call.n > call.dim THEN 0 ELSE call.n) :
        Returns("sparse_random", sparse_random(call.dim, call.n, drawn))

Xor == Returns("xor", xor(call.vecs[1], call.vecs[2]))

HammingDistance ==
    Returns("hamming_distance", hamming_distance(call.vecs[1], call.vecs[2]))

Similarity == Returns("similarity", similarity(call.vecs[1], call.vecs[2]))

ConsensusSum ==
    \E coin \in SUBSET TiePositions(call.vecs) :
        Returns("consensus_sum", consensus_sum(call.vecs, coin))

CyclicShift == Returns("cyclic_shift", cyclic_shift(call.vecs[1], call.shift))

Superposition == Returns("superposition", superposition(call.arrs))

CircularConvolution ==
    Returns("circular_convolution", circular_convolution(call.arrs[1], call.arrs[2]))

CircularCorrelation ==
    Returns("circular_correlation", circular_correlation(call.arrs[1], call.arrs[2]))

DenseCyclicShift ==
    Returns("dense_cyclic_shift", dense_cyclic_shift(call.arrs[1], call.shift))

DenseSimilarity ==
    Returns("dense_similarity", dense_similarity(call.arrs[1], call.arrs[2]))

Next ==
    \/ FromIndices
    \/ SparseRandom
    \/ Xor
    \/ HammingDistance
    \/ Similarity
    \/ ConsensusSum
    \/ CyclicShift
    \/ Superposition
    \/ CircularConvolution
    \/ CircularCorrelation
    \/ DenseCyclicShift
    \/ DenseSimilarity

Spec == Init /\ [][Next]_vars

\* ----------------------------------- specification: chains of operations

\* Two live vectors of one dimension, each built by from_indices or by
\* sparse_random; every step applies xor, consensus_sum or cyclic_shift to
\* them and keeps the vector it returns in place of one of the two.

Built(d) ==
    {from_indices(d, s).vec : s \in {s \in IdxSeqs : from_indices(d, s).tag = "Ok"}}
    \cup UNION {{sparse_random(d, n, drawn).vec : drawn \in SampleOutcomes(d, n)} :
                   n \in 0..d}

InitClosure ==
    /\ pc = "idle"
    /\ call = NoCall
    /\ ret = NoRet
    /\ \E d \in Dims : x \in Built(d) /\ y \in Built(d)
    /\ last = [op |-> "none", tag |-> "None", shift |-> 0]

Keep(op, shift, r) ==
    /\ last' = [op |-> op, tag |-> r.tag, shift |-> shift]
    /\ IF r.tag = "Ok"
       THEN \/ x' = r.vec /\ y' = y
            \/ y' = r.vec /\ x' = x
       ELSE UNCHANGED <<x, y>>
    /\ UNCHANGED <<pc, call, ret>>

ClosureXor ==
    \E a \in {x, y}, b \in {x, y} : Keep("xor", 0, xor(a, b))

ClosureConsensusSum ==
    \E vs \in UNION {[1..k -> {x, y}] : k \in 1..MaxVecs} :
        \E coin \in SUBSET TiePositions(vs) :
            Keep("consensus_sum", 0, consensus_sum(vs, coin))

ClosureCyclicShift ==
    \E v \in {x, y}, s \in Shifts : Keep("cyclic_shift", s, cyclic_shift(v, s))

NextClosure ==
    \/ ClosureXor
    \/ ClosureConsensusSum
    \/ ClosureCyclicShift

SpecClosure == InitClosure /\ [][NextClosure]_vars

\* ------------------------------------------------------------------ claims

Active(v) == Range(v.indices)

SymDiff(a, b) == (Active(a) \ Active(b)) \cup (Active(b) \ Active(a))

Returned(op) == pc = "done" /\ call.op = op

SameDim(vs) == \A k \in 1..Len(vs) : vs[k].dim = vs[1].dim

SameLen(as) == \A k \in 1..Len(as) : Len(as[k]) = Len(as[1])

Abs(n) == IF n < 0 THEN 0 - n ELSE n

\* C1: for sparse vectors a, b of equal dimension, bind(bind(a,b), b) has the
\* dimension and the active indices of a, and bind(a,a) has no active index.
BindSelfInverse ==
    (Returned("xor") /\ SameDim(call.vecs)) =>
        LET a == call.vecs[1]
            b == call.vecs[2]
        IN  /\ ret.tag = "Ok"
            /\ xor(ret.vec, b).tag = "Ok"
            /\ xor(ret.vec, b).vec.dim = a.dim
            /\ xor(ret.vec, b).vec.indices = a.indices
            /\ xor(a, a).tag = "Ok"
            /\ xor(a, a).vec.dim = a.dim
            /\ xor(a, a).vec.indices = <<>>

\* C1 witness: a bind of two overlapping, different, non-empty vectors.
BindSelfInverseWitness ==
    /\ Returned("xor") /\ SameDim(call.vecs)
    /\ Active(call.vecs[1]) \cap Active(call.vecs[2]) # {}
    /\ ret.tag = "Ok" /\ Cardinality(Active(ret.vec)) >= 2

\* C2: for sparse vectors a, b of equal dimension, the active set of
\* bind(a,b) is the symmetric difference of the active sets, and
\* hamming_distance(a,b) is the number of active positions of bind(a,b), the
\* number of positions where a and b differ, and equals hamming_distance(b,a).
BindIsSymmetricDifference ==
    /\ (Returned("xor") /\ SameDim(call.vecs)) =>
          /\ ret.tag = "Ok"
          /\ ret.vec.dim = call.vecs[1].dim
          /\ Active(ret.vec) = SymDiff(call.vecs[1], call.vecs[2])
          /\ Len(ret.vec.indices) = Cardinality(SymDiff(call.vecs[1], call.vecs[2]))
    /\ (Returned("hamming_distance") /\ SameDim(call.vecs)) =>
          /\ ret.tag = "Ok"
          /\ ret.num = Cardinality(SymDiff(call.vecs[1], call.vecs[2]))
          /\ xor(call.vecs[1], call.vecs[2]).tag = "Ok"
          /\ ret.num = Len(xor(call.vecs[1], call.vecs[2]).vec.indices)
          /\ hamming_distance(call.vecs[2], call.vecs[1]) = ret

\* C2 witness: a distance of 2 between two vectors that share a position.
HammingWitness ==
    /\ Returned("hamming_distance") /\ SameDim(call.vecs)
    /\ Active(call.vecs[1]) \cap Active(call.vecs[2]) # {}
    /\ ret.tag = "Ok" /\ ret.num = 2

\* C3: for every vector v and shift s, permute(permute(v, s), -s) = v, for
\* the sparse cyclic_shift and for the dense cyclic_shift.
PermuteRoundTrip ==
    /\ Returned("cyclic_shift") =>
          /\ ret.tag = "Ok"
          /\ cyclic_shift(ret.vec, 0 - call.shift) = OkVec(call.vecs[1])
    /\ Returned("dense_cyclic_shift") =>
          /\ ret.tag = "Ok"
          /\ dense_cyclic_shift(ret.arr, 0 - call.shift) = OkArr(call.arrs[1])

\* C4: for every sparse vector v of dimension D and every shift,
\* permute(v, shift) has dimension D, active set {(i + shift) mod D : i
\* active in v} and as many active positions as v.
PermuteMapsIndices ==
    Returned("cyclic_shift") =>
        LET v == call.vecs[1]
        IN  /\ ret.tag = "Ok"
            /\ ret.vec.dim = v.dim
            /\ Active(ret.vec) = {(i + call.shift) % v.dim : i \in Active(v)}
            /\ Len(ret.vec.indices) = Len(v.indices)

\* The number of inputs active at a position.
ActiveCount(vs, i) == Cardinality({k \in 1..Len(vs) : i \in Active(vs[k])})

MismatchFailsWithVectorSizeMismatch ==
    /\ (pc = "done" /\ call.op \in {"xor", "hamming_distance", "similarity",
                                     "consensus_sum"}
           /\ ~SameDim(call.vecs)) => ret = Err("VectorSizeMismatch")
    /\ (pc = "done" /\ call.op \in {"superposition", "circular_convolution",
                                     "circular_correlation", "dense_similarity"}
           /\ ~SameLen(call.arrs)) => ret = Err("VectorSizeMismatch")

\* C7: bundle and superposition of an empty collection fail with the error
\* value EmptyVectorList; of a non-empty equal-dimension collection they
\* return a result.
EmptyListFailsWithEmptyVectorList ==
    /\ (Returned("consensus_sum") /\ call.vecs = <<>>) => ret = Err("EmptyVectorList")
    /\ (Returned("superposition") /\ call.arrs = <<>>) => ret = Err("EmptyVectorList")
    /\ (Returned("consensus_sum") /\ call.vecs # <<>> /\ SameDim(call.vecs)) =>
          ret.tag = "Ok"
    /\ (Returned("superposition") /\ call.arrs # <<>> /\ SameLen(call.arrs)) =>
          ret.tag = "Ok"

\* s and t hold the same values, each as often.
IsPermutation(s, t) ==
    /\ Len(s) = Len(t)
    /\ \A v \in Range(s) \cup Range(t) :
          Cardinality({k \in 1..Len(s) : s[k] = v})
              = Cardinality({k \in 1..Len(t) : t[k] = v})

\* C8: construct_from_indices(dimension, indices) fails when an index is
\* >= dimension; otherwise it returns a vector of that dimension whose active
\* set is the set of distinct values of indices (duplicates deduplicated),
\* the same vector for every permutation of indices.
FromIndicesDeduplicates ==
    Returned("from_indices") =>
        IF \E k \in 1..Len(call.idx) : call.idx[k] >= call.dim
        THEN ret.tag # "Ok"
        ELSE /\ ret.tag = "Ok"
             /\ ret.vec.dim = call.dim
             /\ Active(ret.vec) = Range(call.idx)
             /\ Len(ret.vec.indices) = Cardinality(Range(call.idx))
             /\ \A t \in IdxSeqs :
                   IsPermutation(call.idx, t) => from_indices(call.dim, t) = ret

\* C9: construct_random(dimension, n_active) fails with ZeroDimension when
\* dimension = 0 and with TooManyActiveElements when n_active > dimension;
\* otherwise the result has the dimension and n_active distinct active
\* indices below it.
SparseRandomContract ==
    Returned("sparse_random") =>
        IF call.dim = 0 THEN ret = Err("ZeroDimension")
        ELSE IF call.n > call.dim THEN ret = Err("TooManyActiveElements")
        ELSE /\ ret.tag = "Ok"
             /\ ret.vec.dim = call.dim
             /\ Cardinality(Active(ret.vec)) = call.n
             /\ Len(ret.vec.indices) = call.n
             /\ Active(ret.vec) \subseteq 0..(call.dim - 1)

\* The structure of a sparse binary vector.
WellFormed(v) ==
    /\ Len(v.data) = Len(v.indices)
    /\ \A k \in 1..(Len(v.indices) - 1) : v.indices[k] < v.indices[k + 1]
    /\ \A k \in 1..Len(v.indices) : 0 <= v.indices[k] /\ v.indices[k] < v.dim
    /\ \A k \in 1..Len(v.data) : v.data[k] = 1

\* C10: from vectors built by from_indices or sparse_random, after any
\* sequence of xor, consensus_sum and cyclic_shift on equal-dimension
\* operands, every vector has the dimension of its operands, strictly
\* increasing active indices in [0, D) and the value 1 at each of them; no
\* operator aborts on a malformed vector (xor and consensus_sum never abort;
\* cyclic_shift aborts on |shift| > D alone, which is C3's and C4's case).
ClosureInvariant ==
    /\ WellFormed(x)
    /\ WellFormed(y)
    /\ x.dim = y.dim
    /\ last.tag \in {"None", "Ok", "Panic"}
    /\ last.tag = "Panic" => (last.op = "cyclic_shift" /\ Abs(last.shift) > x.dim)

\* C10 witness: consensus_sum has returned a vector that is kept, one of
\* the two live vectors has two active indices and the other is a different,
\* non-empty vector.
ClosureWitness ==
    /\ last.op = "consensus_sum" /\ last.tag = "Ok"
    /\ Len(x.indices) >= 2 /\ x # y /\ y.indices # <<>>

====
